---------------------------- MODULE Spec2Model ----------------------------
(***************************************************************************)
(* check-untagged-go-deps (main.go): finds the pseudo-versioned            *)
(* requirements of a go.mod, asks `go list -m -json module@branch` for     *)
(* the version at the tip of main and of master, and reports every         *)
(* dependency whose version differs from the latest one.                   *)
(*                                                                         *)
(* A Go string is modelled as a sequence of one-character strings, so the  *)
(* two regular expressions and the string comparison are computed on the   *)
(* characters.  An error message is a sequence of words.                   *)
(***************************************************************************)
EXTENDS Integers, Sequences, FiniteSets, TLC

VARIABLES
    load,            \* outcome of os.ReadFile / modfile.Parse: "ok", "readfail", "parsefail"
    entries,         \* f.Require of the parsed go.mod: [module, version, indirect]
    includeIndirect, \* the -i flag
    pc,              \* position of the process
    deps,            \* checkGoMod: the result of findPseudoVersionedDeps
    i,               \* checkForUpdates: index in deps of the dependency being checked
    b,               \* getLatestVersion: index in branches of the branch being queried
    versions,        \* getLatestVersion: the versions resolved so far
    updates,         \* checkForUpdates: the updates found so far
    latest,          \* what the last finished call of getLatestVersion/newerVersion returned
    ret,             \* what checkGoMod returned: [deps, updates, err]
    exitCode,        \* <<c>> once the process has exited with code c, <<>> while it runs
    outcomes,        \* history: what queryModuleVersion returned for the current dependency
    queried,         \* history: every <<module, branch>> passed to queryModuleVersion
    resolved         \* history: the version getLatestVersion returned for each checked dependency

vars == <<load, entries, includeIndirect, pc, deps, i, b, versions, updates,
          latest, ret, exitCode, outcomes, queried, resolved>>

----------------------------------------------------------------------------
(* Bounds of the model *)

\* the longest go.mod require list of a run
MaxEntries == 2
\* the longest require list handed to findPseudoVersionedDeps on its own
MaxScanEntries == 2

(* Constants of the program *)

\* pseudoVersionRe, timestampRe: [0-9]{14}
TimestampLen == 14
\* pseudoVersionRe: [a-f0-9]{12}
HashLen == 12

----------------------------------------------------------------------------
(* Characters and strings *)

Digits == {"0", "1", "2", "3", "4", "5", "6", "7", "8", "9"}
LowerHex == Digits \cup {"a", "b", "c", "d", "e", "f"}

\* The byte of each character that occurs in the version strings below.
Byte ==
    [c \in {"+"} |-> 43] @@ [c \in {"-"} |-> 45] @@ [c \in {"."} |-> 46] @@
    ("0" :> 48 @@ "1" :> 49 @@ "2" :> 50 @@ "3" :> 51 @@ "4" :> 52 @@
     "5" :> 53 @@ "6" :> 54 @@ "7" :> 55 @@ "8" :> 56 @@ "9" :> 57) @@
    ("A" :> 65 @@ "F" :> 70) @@
    ("a" :> 97 @@ "b" :> 98 @@ "c" :> 99 @@ "d" :> 100 @@ "e" :> 101 @@
     "f" :> 102 @@ "i" :> 105 @@ "l" :> 108 @@ "m" :> 109 @@ "n" :> 110 @@
     "o" :> 111 @@ "p" :> 112 @@ "t" :> 116 @@ "v" :> 118)

\* Go's s < t on strings: bytewise lexicographic order.
RECURSIVE StrLess(_, _)
StrLess(s, t) ==
    IF s = <<>> THEN t # <<>>
    ELSE IF t = <<>> THEN FALSE
    ELSE IF s[1] = t[1] THEN StrLess(Tail(s), Tail(t))
    ELSE Byte[s[1]] < Byte[t[1]]

\* strings.Contains on messages, word by word.
Contains(msg, words) ==
    \E k \in 0..(Len(msg) - Len(words)) :
        \A j \in 1..Len(words) : msg[k + j] = words[j]

----------------------------------------------------------------------------
(* Errors: nil, or an error with its message.  `text` is the message's     *)
(* words and `quoted` the version string a %q verb put at its end.         *)

Nil == [isErr |-> FALSE, text |-> <<>>, quoted |-> <<>>]
Error(text) == [isErr |-> TRUE, text |-> text, quoted |-> <<>>]
\* fmt.Errorf("<words>: %w", err)
Wrap(words, err) == [isErr |-> TRUE, text |-> words \o err.text, quoted |-> err.quoted]

----------------------------------------------------------------------------
(* The regular expressions *)

\* [0-9]{14} matches s at position p
DigitsAt(s, p) ==
    /\ p >= 1
    /\ p + TimestampLen - 1 <= Len(s)
    /\ \A k \in p..(p + TimestampLen - 1) : s[k] \in Digits

\* [0-9]{14}-[a-f0-9]{12}$ matches s at position p
PseudoAt(s, p) ==
    /\ DigitsAt(s, p)
    /\ p + TimestampLen + HashLen = Len(s)
    /\ s[p + TimestampLen] = "-"
    /\ \A k \in (p + TimestampLen + 1)..(p + TimestampLen + HashLen) : s[k] \in LowerHex

\* [0-9]{14}-[a-f0-9]{12} matches s at position p, anywhere in s
PseudoAtFloating(s, p) ==
    /\ DigitsAt(s, p)
    /\ p + TimestampLen + HashLen <= Len(s)
    /\ s[p + TimestampLen] = "-"
    /\ \A k \in (p + TimestampLen + 1)..(p + TimestampLen + HashLen) : s[k] \in LowerHex

pseudoVersionReNoAnchor(s) == \E p \in 1..Len(s) : PseudoAtFloating(s, p)

\* pseudoVersionRe.MatchString(s): an unanchored search for a match that ends s
pseudoVersionRe(s) == \E p \in 1..Len(s) : PseudoAt(s, p)

\* timestampRe.FindString(s): the leftmost match, "" when there is none
RECURSIVE FindStringFrom(_, _)
FindStringFrom(s, p) ==
    IF p + TimestampLen - 1 > Len(s) THEN <<>>
    ELSE IF DigitsAt(s, p) THEN SubSeq(s, p, p + TimestampLen - 1)
    ELSE FindStringFrom(s, p + 1)

timestampRe(s) == FindStringFrom(s, 1)

----------------------------------------------------------------------------
(* extractTimestamp and newerVersion *)

NoTimestampFound(version) ==
    [isErr |-> TRUE, text |-> <<"no", "timestamp", "found", "in", "version">>,
     quoted |-> version]

extractTimestamp(version) ==
    LET match == timestampRe(version)
    IN  IF match = <<>>
        THEN [timestamp |-> <<>>, err |-> NoTimestampFound(version)]
        ELSE [timestamp |-> match, err |-> Nil]

newerVersionStrict(a, b_) ==
    LET tsA == extractTimestamp(a)
        tsB == extractTimestamp(b_)
    IN  IF tsA.err.isErr THEN [version |-> <<>>, err |-> tsA.err]
        ELSE IF tsB.err.isErr THEN [version |-> <<>>, err |-> tsB.err]
        ELSE IF StrLess(tsB.timestamp, tsA.timestamp) THEN [version |-> a, err |-> Nil]
        ELSE [version |-> b_, err |-> Nil]

newerVersion(a, b_) ==
    LET tsA == extractTimestamp(a)
        tsB == extractTimestamp(b_)
    IN  IF tsA.err.isErr THEN [version |-> <<>>, err |-> tsA.err]
        ELSE IF tsB.err.isErr THEN [version |-> <<>>, err |-> tsB.err]
        ELSE IF ~StrLess(tsA.timestamp, tsB.timestamp) THEN [version |-> a, err |-> Nil]
        ELSE [version |-> b_, err |-> Nil]

----------------------------------------------------------------------------
(* Version strings *)

Str_v000 == <<"v", "0", ".", "0", ".", "0", "-">>
Str_v111 == <<"v", "1", ".", "1", ".", "1", "-", "0", ".">>
Str_v123 == <<"v", "1", ".", "2", ".", "3">>
Str_v100 == <<"v", "1", ".", "0", ".", "0", "-">>

T20220925 == <<"2", "0", "2", "2", "0", "9", "2", "5", "0", "3", "4", "5", "2", "1">>
T20231101 == <<"2", "0", "2", "3", "1", "1", "0", "1", "0", "0", "0", "0", "0", "0">>
T20231201 == <<"2", "0", "2", "3", "1", "2", "0", "1", "0", "0", "0", "0", "0", "0">>
T20240102 == <<"2", "0", "2", "4", "0", "1", "0", "2", "0", "3", "0", "4", "0", "5">>
T20990101 == <<"2", "0", "9", "9", "0", "1", "0", "1", "0", "0", "0", "0", "0", "0">>

H_abc123 == <<"a", "b", "c", "1", "2", "3", "a", "b", "c", "1", "2", "3">>
H_def456 == <<"d", "e", "f", "4", "5", "6", "d", "e", "f", "4", "5", "6">>
H_2f3252 == <<"2", "f", "3", "2", "5", "2", "1", "4", "0", "e", "0", "0">>
H_upper  == <<"A", "A", "A", "A", "A", "A", "F", "F", "F", "F", "F", "F">>

\* v0.0.0-20231101000000-abc123abc123
VOld == Str_v000 \o T20231101 \o <<"-">> \o H_abc123
\* v0.0.0-20231201000000-def456def456
VNew == Str_v000 \o T20231201 \o <<"-">> \o H_def456
\* v1.1.1-0.20231201000000-2f3252140e00: the timestamp of VNew, another commit
VNewB == Str_v111 \o T20231201 \o <<"-">> \o H_2f3252
\* v0.0.0-20240102030405-abc123abc123
VLater == Str_v000 \o T20240102 \o <<"-">> \o H_abc123
\* v1.2.3: what a branch whose tip is tagged resolves to
VTag == Str_v123
\* v1.2.3-beta.1
VBeta == Str_v123 \o <<"-", "b", "e", "t", "a", ".", "1">>
\* v1.0.0-20990101000000.0.20220925034521-abc123abc123: the pseudo-version of
\* a commit of 2022 that follows the pre-release tag v1.0.0-20990101000000
VSpur == Str_v100 \o T20990101 \o <<".", "0", ".">> \o T20220925 \o <<"-">> \o H_abc123
\* v0.0.0-20231101000000-abc123abc123+incompatible
VIncompat == VOld \o <<"+", "i", "n", "c", "o", "m", "p", "a", "t", "i", "b", "l", "e">>
\* v0.0.0-20231101000000-AAAAAAFFFFFF
VUpper == Str_v000 \o T20231101 \o <<"-">> \o H_upper
\* v0.0.0-2023110100000-abc123abc123: 13 digits
VThirteen == Str_v000 \o SubSeq(T20231101, 1, TimestampLen - 1) \o <<"-">> \o H_abc123
\* v0.0.0-20231101000000-abc123abc12: 11 hash characters
VShortHash == Str_v000 \o T20231101 \o <<"-">> \o SubSeq(H_abc123, 1, HashLen - 1)
\* v0.0.0-20231101000000.abc123abc123: no hyphen
VNoHyphen == Str_v000 \o T20231101 \o <<".">> \o H_abc123
\* 20231201000000-def456def456: nothing before the timestamp
VBare == T20231201 \o <<"-">> \o H_def456
\* v0.0.0-920231101000000-abc123abc123: a run of 15 digits
VLongRun == Str_v000 \o <<"9">> \o T20231101 \o <<"-">> \o H_abc123
\* v0.0.0-20231201000000: a timestamp and no hash
VNoHash == Str_v000 \o T20231201

\* the versions a go.mod of a run requires
ManifestVersions == {VOld, VNew, VTag}
\* the versions `go list` resolves a branch to
ResolverVersions == {VOld, VNew, VNewB, VTag, VSpur}
\* the versions findPseudoVersionedDeps is applied to on its own
ScanVersions ==
    {VOld, VNewB, VTag, VBeta, VSpur, VIncompat, VUpper, VThirteen, VShortHash,
     VNoHyphen, VBare}
\* the versions newerVersion is applied to on its own
CompareVersions ==
    {VOld, VNew, VNewB, VLater, VTag, VBeta, VSpur, VThirteen, VLongRun, VNoHash}

ModulePaths ==
    <<"github.com/example/module", "go4.org/netipx",
      "github.com/maxmind/mmdbwriter", "github.com/example/indirect">>

----------------------------------------------------------------------------
(* findPseudoVersionedDeps *)

RECURSIVE ScanFrom(_, _, _, _)
ScanFrom(reqs, incl, k, acc) ==
    IF k > Len(reqs) THEN acc
    ELSE IF ~pseudoVersionRe(reqs[k].version) THEN ScanFrom(reqs, incl, k + 1, acc)
    ELSE IF reqs[k].indirect /\ ~incl THEN ScanFrom(reqs, incl, k + 1, acc)
    ELSE ScanFrom(reqs, incl, k + 1,
                  Append(acc, [module |-> reqs[k].module, version |-> reqs[k].version]))

findPseudoVersionedDeps(ld, reqs, incl) ==
    IF ld = "readfail"
    THEN [deps |-> <<>>, err |-> Wrap(<<"reading", "file:">>, Error(<<"no", "such", "file">>))]
    ELSE IF ld = "parsefail"
    THEN [deps |-> <<>>, err |-> Wrap(<<"parsing", "go.mod:">>, Error(<<"syntax", "error">>))]
    ELSE [deps |-> ScanFrom(reqs, incl, 1, <<>>), err |-> Nil]

----------------------------------------------------------------------------
(* queryModuleVersion: `go list -m -json module@branch` *)

\* stderr of `go list` for a branch the repository does not have
StderrUnknownRevision ==
    <<"go:", "module@branch:", "invalid", "version:", "unknown", "revision", "branch">>
\* stderr of `go list` when the repository cannot be reached
StderrNetwork ==
    <<"go:", "module@branch:", "unrecognized", "import", "path:", "i/o", "timeout">>

\* what running the command can produce
RawOutcomes ==
    [kind : {"ok"}, version : ResolverVersions, stderr : {<<>>}]
    \cup [kind : {"exit"}, version : {<<>>}, stderr : {StderrUnknownRevision, StderrNetwork}]
    \cup [kind : {"exec", "badjson"}, version : {<<>>}, stderr : {<<>>}]

queryModuleVersion(raw) ==
    IF raw.kind = "exit"
    THEN [version |-> <<>>, err |-> Error(raw.stderr)]
    ELSE IF raw.kind = "exec"
    THEN [version |-> <<>>,
          err |-> Wrap(<<"running", "go", "list:">>, Error(<<"executable", "not", "found">>))]
    ELSE IF raw.kind = "badjson"
    THEN [version |-> <<>>,
          err |-> Wrap(<<"parsing", "module", "info:">>, Error(<<"unexpected", "end">>))]
    ELSE [version |-> raw.version, err |-> Nil]

----------------------------------------------------------------------------
(* getLatestVersion *)

branches == <<"main", "master">>

tryNextAlways(err) == TRUE

\* strings.Contains(err.Error(), "unknown revision"): try the next branch
tryNext(err) == Contains(err.text, <<"unknown", "revision">>)

moreBranchesUntilFound(k, vs) == k < Len(branches) /\ vs = <<>>

\* the range loop over branches goes on after branch k
moreBranches(k, vs) == k < Len(branches)

NoDefaultBranchFound == Error(<<"neither", "main", "nor", "master", "branch", "found">>)

pickVersionNoCheck(vs) ==
    IF Len(vs) = 2 THEN newerVersion(vs[1], vs[2])
    ELSE IF Len(vs) = 0 THEN [version |-> <<>>, err |-> Nil]
    ELSE [version |-> vs[1], err |-> Nil]

pickVersionNeedsBoth(vs) ==
    IF Len(vs) < 2 THEN [version |-> <<>>, err |-> NoDefaultBranchFound]
    ELSE newerVersion(vs[1], vs[2])

\* after the loop: nothing found, both found, one found
pickVersion(vs) ==
    IF Len(vs) = 0 THEN [version |-> <<>>, err |-> NoDefaultBranchFound]
    ELSE IF Len(vs) = 2 THEN newerVersion(vs[1], vs[2])
    ELSE [version |-> vs[1], err |-> Nil]

----------------------------------------------------------------------------
(* checkForUpdates, checkGoMod, run, main *)

addUpdateAlways(ups, dep, v) ==
    Append(ups, [module |-> dep.module, current |-> dep.version, latest |-> v])

\* if dep.version != latest { updates = append(updates, ...) }
addUpdate(ups, dep, v) ==
    IF dep.version # v
    THEN Append(ups, [module |-> dep.module, current |-> dep.version, latest |-> v])
    ELSE ups

failedPartial(ups, dep, err) == [deps |-> <<>>, updates |-> ups, err |-> Nil]

\* checkForUpdates returns nil and the wrapped error, checkGoMod passes it on
failed(ups, dep, err) ==
    [deps |-> <<>>, updates |-> <<>>, err |-> Wrap(<<"checking", dep.module, ":">>, err)]

runIgnoresUpdates(r) ==
    [updatesFound |-> FALSE, err |-> r.err]

run(r) ==
    IF r.err.isErr THEN [updatesFound |-> FALSE, err |-> r.err]
    ELSE IF Len(r.deps) = 0 THEN [updatesFound |-> FALSE, err |-> Nil]
    ELSE IF Len(r.updates) > 0 THEN [updatesFound |-> TRUE, err |-> Nil]
    ELSE [updatesFound |-> FALSE, err |-> Nil]

\* the exit code main ends the process with
main(r) ==
    IF r.err.isErr THEN 1
    ELSE IF r.updatesFound THEN 1
    ELSE 0

----------------------------------------------------------------------------
(* The run of the process *)

NoResult == [version |-> <<>>, err |-> Nil]
NoReturn == [deps |-> <<>>, updates |-> <<>>, err |-> Nil]

\* the require lists of at most n entries with versions from vs; the k-th
\* entry requires the k-th module path
RequireLists(n, vs) ==
    UNION {
        { [k \in 1..m |-> [module |-> ModulePaths[k], version |-> f[k][1], indirect |-> f[k][2]]] :
            f \in [1..m -> vs \X BOOLEAN] } : m \in 0..n }

Idle ==
    /\ deps = <<>> /\ i = 0 /\ b = 0 /\ versions = <<>> /\ updates = <<>>
    /\ latest = NoResult /\ ret = NoReturn /\ exitCode = <<>>
    /\ outcomes = <<>> /\ queried = <<>> /\ resolved = <<>>

Init ==
    /\ pc = "checkGoMod"
    /\ load \in {"ok", "readfail", "parsefail"}
    /\ entries \in (IF load = "ok" THEN RequireLists(MaxEntries, ManifestVersions) ELSE {<<>>})
    /\ includeIndirect \in BOOLEAN
    /\ Idle

\* checkGoMod up to its call of checkForUpdates
CheckGoMod ==
    /\ pc = "checkGoMod"
    /\ LET found == findPseudoVersionedDeps(load, entries, includeIndirect)
       IN  IF found.err.isErr
           THEN /\ ret' = [deps |-> <<>>, updates |-> <<>>,
                           err |-> Wrap(<<"reading", "go.mod:">>, found.err)]
                /\ pc' = "returned"
                /\ UNCHANGED <<deps, i, b>>
           ELSE IF Len(found.deps) = 0
           THEN /\ ret' = NoReturn
                /\ pc' = "returned"
                /\ UNCHANGED <<deps, i, b>>
           ELSE /\ deps' = found.deps
                /\ i' = 1
                /\ b' = 1
                /\ pc' = "query"
                /\ UNCHANGED ret
    /\ UNCHANGED <<load, entries, includeIndirect, versions, updates, latest,
                   exitCode, outcomes, queried, resolved>>

\* One call of queryModuleVersion by getLatestVersion for deps[i] and
\* branches[b], and everything the process does until its next call.
Query ==
    /\ pc = "query"
    /\ \E raw \in RawOutcomes :
         LET dep == deps[i]
             r == queryModuleVersion(raw)
             vs == IF r.err.isErr THEN versions ELSE Append(versions, r.version)
             got == pickVersion(vs)
         IN  /\ outcomes' = (IF b = 1 THEN <<r>> ELSE Append(outcomes, r))
             /\ queried' = Append(queried, <<dep.module, branches[b]>>)
             /\ IF r.err.isErr /\ ~tryNext(r.err)
                THEN \* return "", err
                     /\ latest' = [version |-> <<>>, err |-> r.err]
                     /\ ret' = failed(updates, dep, r.err)
                     /\ pc' = "returned"
                     /\ UNCHANGED <<i, b, versions, updates, resolved>>
                ELSE IF moreBranches(b, vs)
                THEN /\ versions' = vs
                     /\ b' = b + 1
                     /\ UNCHANGED <<pc, i, updates, latest, ret, resolved>>
                ELSE IF got.err.isErr
                THEN /\ latest' = got
                     /\ versions' = vs
                     /\ ret' = failed(updates, dep, got.err)
                     /\ pc' = "returned"
                     /\ UNCHANGED <<i, b, updates, resolved>>
                ELSE /\ latest' = got
                     /\ resolved' = Append(resolved, got.version)
                     /\ updates' = addUpdate(updates, dep, got.version)
                     /\ IF i < Len(deps)
                        THEN /\ i' = i + 1
                             /\ b' = 1
                             /\ versions' = <<>>
                             /\ UNCHANGED <<pc, ret>>
                        ELSE /\ ret' = [deps |-> deps, updates |-> updates', err |-> Nil]
                             /\ pc' = "returned"
                             /\ versions' = vs
                             /\ UNCHANGED <<i, b>>
    /\ UNCHANGED <<load, entries, includeIndirect, deps, exitCode>>

\* run reports what checkGoMod returned and main exits
Exit ==
    /\ pc = "returned"
    /\ exitCode' = <<main(run(ret))>>
    /\ pc' = "exited"
    /\ UNCHANGED <<load, entries, includeIndirect, deps, i, b, versions, updates,
                   latest, ret, outcomes, queried, resolved>>

Next == CheckGoMod \/ Query \/ Exit

Spec == Init /\ [][Next]_vars

----------------------------------------------------------------------------
(* findPseudoVersionedDeps on its own *)

InitScan ==
    /\ pc = "scan"
    /\ load = "ok"
    /\ entries \in RequireLists(MaxScanEntries, ScanVersions)
    /\ includeIndirect \in BOOLEAN
    /\ Idle

Scan ==
    /\ pc = "scan"
    /\ LET found == findPseudoVersionedDeps(load, entries, includeIndirect)
       IN  /\ deps' = found.deps
           /\ ret' = [deps |-> found.deps, updates |-> <<>>, err |-> found.err]
    /\ pc' = "scanned"
    /\ UNCHANGED <<load, entries, includeIndirect, i, b, versions, updates, latest,
                   exitCode, outcomes, queried, resolved>>

SpecScan == InitScan /\ [][Scan]_vars

----------------------------------------------------------------------------
(* newerVersion on its own *)

InitCompare ==
    /\ pc = "compare"
    /\ load = "ok"
    /\ entries = <<>>
    /\ includeIndirect = FALSE
    /\ deps = <<>> /\ i = 0 /\ b = 0 /\ updates = <<>>
    /\ versions \in {<<x, y>> : x \in CompareVersions, y \in CompareVersions}
    /\ latest = NoResult /\ ret = NoReturn /\ exitCode = <<>>
    /\ outcomes = <<>> /\ queried = <<>> /\ resolved = <<>>

Compare ==
    /\ pc = "compare"
    /\ latest' = newerVersion(versions[1], versions[2])
    /\ pc' = "compared"
    /\ UNCHANGED <<load, entries, includeIndirect, deps, i, b, versions, updates,
                   ret, exitCode, outcomes, queried, resolved>>

SpecCompare == InitCompare /\ [][Compare]_vars

----------------------------------------------------------------------------
(* Vocabulary of the properties *)

\* a resolver call that returned a version
Resolved(o) == ~o.err.isErr
\* a resolver call that failed because the branch does not exist
BranchNotFound(o) == o.err.isErr /\ o.err.text = StderrUnknownRevision
\* a resolver call that failed in any other way
OtherFailure(o) == o.err.isErr /\ o.err.text # StderrUnknownRevision

\* the branches queried for module m, in the order of the calls
RECURSIVE BranchesQueried(_, _)
BranchesQueried(log, m) ==
    IF log = <<>> THEN <<>>
    ELSE IF log[1][1] = m THEN <<log[1][2]>> \o BranchesQueried(Tail(log), m)
    ELSE BranchesQueried(Tail(log), m)

\* getLatestVersion has returned for the dependency whose calls `outcomes` holds
Returned == outcomes # <<>> /\ ~(pc = "query" /\ b = 2)

\* C1: a resolver failure other than "unknown revision" is returned as it is
\* by getLatestVersion, at once: it is the last call of the run, so master is
\* not queried when main fails this way, and main's version is not returned
\* when master does.
C1_OtherFailureAborts ==
    \A k \in 1..Len(outcomes) :
        OtherFailure(outcomes[k]) =>
            /\ k = Len(outcomes)
            /\ pc \in {"returned", "exited"}
            /\ latest = [version |-> <<>>, err |-> outcomes[k].err]
            /\ BranchesQueried(queried, deps[i].module) = SubSeq(branches, 1, k)
            /\ queried[Len(queried)] = <<deps[i].module, branches[k]>>

\* main resolved, master failed with another error than "unknown revision"
C1_Witness ==
    /\ Len(outcomes) = 2
    /\ Resolved(outcomes[1])
    /\ OtherFailure(outcomes[2])
    /\ pc = "returned"

\* C2: when one of main and master resolves and the other fails with
\* "unknown revision", getLatestVersion returns the resolved version and no
\* error, whichever branch it is.
C2_OneBranchFound ==
    (Returned /\ Len(outcomes) = 2) =>
        /\ (Resolved(outcomes[1]) /\ BranchNotFound(outcomes[2]))
              => latest = [version |-> outcomes[1].version, err |-> Nil]
        /\ (BranchNotFound(outcomes[1]) /\ Resolved(outcomes[2]))
              => latest = [version |-> outcomes[2].version, err |-> Nil]

\* only master exists
C2_Witness ==
    /\ Returned /\ Len(outcomes) = 2
    /\ BranchNotFound(outcomes[1]) /\ Resolved(outcomes[2])
    /\ latest.version = outcomes[2].version

\* C4: when main and master both fail with "unknown revision",
\* getLatestVersion returns the error "neither main nor master branch
\* found" and no version; that error is not the resolver's.
C4_NoDefaultBranchFound ==
    (Returned /\ Len(outcomes) = 2
        /\ BranchNotFound(outcomes[1]) /\ BranchNotFound(outcomes[2])) =>
        /\ latest.version = <<>>
        /\ latest.err.isErr
        /\ latest.err.text = <<"neither", "main", "nor", "master", "branch", "found">>
        /\ latest.err # outcomes[1].err
        /\ latest.err # outcomes[2].err
        /\ ~Contains(latest.err.text, <<"unknown", "revision">>)
        /\ pc \in {"returned", "exited"}

C4_Witness ==
    /\ Returned /\ Len(outcomes) = 2
    /\ BranchNotFound(outcomes[1]) /\ BranchNotFound(outcomes[2])
    /\ latest.err.isErr

----------------------------------------------------------------------------
(* Pseudo-versions and timestamps, as the properties speak of them *)

\* v ends with 14 digits, a hyphen and 12 lowercase hexadecimal characters
IsPseudoVersion(v) ==
    LET n == Len(v)
    IN  /\ n >= TimestampLen + 1 + HashLen
        /\ \A k \in (n - HashLen + 1)..n : v[k] \in LowerHex
        /\ v[n - HashLen] = "-"
        /\ \A k \in (n - HashLen - TimestampLen)..(n - HashLen - 1) : v[k] \in Digits

\* the timestamp a pseudo-version embeds: the 14 digits before its hash
EmbeddedTimestamp(v) == SubSeq(v, Len(v) - HashLen - TimestampLen, Len(v) - HashLen - 1)

\* the positions of v where a run of 14 digits starts
RunStarts(v) ==
    {p \in 1..Len(v) :
        p + TimestampLen - 1 <= Len(v) /\ \A k \in 0..(TimestampLen - 1) : v[p + k] \in Digits}

HasRun(v) == RunStarts(v) # {}

\* the first run of 14 digits of v
FirstRun(v) ==
    LET p == CHOOSE q \in RunStarts(v) : \A r \in RunStarts(v) : q <= r
    IN  [k \in 1..TimestampLen |-> v[p + k - 1]]

DigitValue(c) == CHOOSE n \in 0..9 : <<"0", "1", "2", "3", "4", "5", "6", "7", "8", "9">>[n + 1] = c

\* s is a later timestamp than t: at the first digit where they differ, s has
\* the larger one
Later(s, t) ==
    \E k \in 1..TimestampLen :
        /\ \A j \in 1..(k - 1) : s[j] = t[j]
        /\ DigitValue(s[k]) > DigitValue(t[k])

NotEarlier(s, t) == s = t \/ Later(s, t)

\* C3: when main and master both resolve (to pseudo-versions),
\* getLatestVersion returns the one whose embedded timestamp is the more
\* recent, and main's when the two timestamps are equal.
C3_NewerEmbeddedTimestamp ==
    (Returned /\ Len(outcomes) = 2
        /\ Resolved(outcomes[1]) /\ Resolved(outcomes[2])
        /\ IsPseudoVersion(outcomes[1].version) /\ IsPseudoVersion(outcomes[2].version)) =>
        LET onMain == outcomes[1].version
            onMaster == outcomes[2].version
        IN  /\ ~latest.err.isErr
            /\ latest.version =
                  IF NotEarlier(EmbeddedTimestamp(onMain), EmbeddedTimestamp(onMaster))
                  THEN onMain ELSE onMaster

\* C5 as stated: master is queried only after main failed with "unknown
\* revision", and not after main resolved.
C5_MasterOnlyAfterNotFound ==
    \A k \in 1..Len(deps) :
        (k = i /\ Len(outcomes) = 2
            /\ BranchesQueried(queried, deps[k].module) = <<"main", "master">>)
        => BranchNotFound(outcomes[1])

\* C5 amended: master is queried after main resolved and after main failed
\* with "unknown revision"; it is left out only when main failed with
\* another error.
C5_MasterUnlessOtherFailure ==
    /\ (pc = "query" /\ b = 2) =>
          /\ Len(outcomes) = 1
          /\ Resolved(outcomes[1]) \/ BranchNotFound(outcomes[1])
    /\ Len(outcomes) = 2 =>
          /\ Resolved(outcomes[1]) \/ BranchNotFound(outcomes[1])
          /\ \E k \in 1..Len(deps) : BranchesQueried(queried, deps[k].module) = branches
    /\ (Returned /\ Len(outcomes) = 1) =>
          /\ OtherFailure(outcomes[1])
          /\ BranchesQueried(queried, deps[i].module) = <<"main">>

\* main resolved and master was queried
C5_Witness ==
    /\ Len(outcomes) = 2
    /\ Resolved(outcomes[1])
    /\ BranchesQueried(queried, deps[1].module) = <<"main", "master">>

\* C6: when getLatestVersion fails for a dependency, the run ends there: no
\* later dependency is queried, checkGoMod returns an error that wraps the
\* failure and names the dependency's module path, and it returns no
\* updates and no dependencies, whatever updates were found before.
C6_FailFast ==
    latest.err.isErr =>
        /\ pc \in {"returned", "exited"}
        /\ Len(resolved) = i - 1
        /\ \A k \in 1..Len(queried) : \E j \in 1..i : queried[k][1] = deps[j].module
        /\ ret.err.isErr
        /\ ret.err.text = <<"checking", deps[i].module, ":">> \o latest.err.text
        /\ ret.err.quoted = latest.err.quoted
        /\ ret.updates = <<>>
        /\ ret.deps = <<>>

\* the second dependency fails after the first one produced an update
C6_Witness ==
    /\ latest.err.isErr
    /\ i = 2
    /\ Len(updates) = 1
    /\ ret.err.isErr
    /\ pc = "exited"

\* the dependencies among the first n whose version is not the resolved one
Outdated(n) == {k \in 1..n : deps[k].version # resolved[k]}

\* the j-th of them
NthOutdated(n, j) == CHOOSE k \in Outdated(n) : Cardinality({m \in Outdated(n) : m <= k}) = j

\* the updates of the first n dependencies
UpdatesOf(ups, n) ==
    /\ Len(ups) = Cardinality(Outdated(n))
    /\ \A j \in 1..Len(ups) :
          LET k == NthOutdated(n, j)
          IN  ups[j] = [module |-> deps[k].module, current |-> deps[k].version,
                        latest |-> resolved[k]]

\* C7: when every dependency resolves, checkGoMod returns one update
\* (module, current, latest) for each dependency whose version is not its
\* latest one, none for the others, in the order of the dependencies.
C7_UpdatesAreTheOutdated ==
    /\ UpdatesOf(updates, Len(resolved))
    /\ (pc \in {"returned", "exited"} /\ deps # <<>> /\ ~ret.err.isErr) =>
          /\ Len(resolved) = Len(deps)
          /\ UpdatesOf(ret.updates, Len(deps))
          /\ ret.deps = deps

\* of two dependencies the first is up to date and the second is not
C7_Witness ==
    /\ pc = "returned"
    /\ ~ret.err.isErr
    /\ Len(deps) = 2
    /\ deps[1].version = resolved[1]
    /\ deps[2].version # resolved[2]
    /\ Len(ret.updates) = 1
    /\ ret.updates[1].module = deps[2].module

----------------------------------------------------------------------------
(* findPseudoVersionedDeps and newerVersion on their own *)

\* the entries findPseudoVersionedDeps is to keep
Kept == {k \in 1..Len(entries) :
            /\ IsPseudoVersion(entries[k].version)
            /\ ~entries[k].indirect \/ includeIndirect}

NthKept(j) == CHOOSE k \in Kept : Cardinality({m \in Kept : m <= k}) = j

\* C8: findPseudoVersionedDeps returns the entries whose version is a
\* pseudo-version and that are direct or, with includeIndirect, indirect:
\* all of them and no others, each with its module path and its version, in
\* the order of the entries.
C8_ScanKeepsPseudoVersions ==
    pc = "scanned" =>
        /\ ~ret.err.isErr
        /\ Len(deps) = Cardinality(Kept)
        /\ \A j \in 1..Len(deps) :
              deps[j] = [module |-> entries[NthKept(j)].module,
                         version |-> entries[NthKept(j)].version]

\* a direct pseudo-version is kept, and the indirect one after it only with
\* includeIndirect
C8_Witness ==
    /\ pc = "scanned"
    /\ Len(entries) = 2
    /\ IsPseudoVersion(entries[1].version) /\ ~entries[1].indirect
    /\ IsPseudoVersion(entries[2].version) /\ entries[2].indirect
    /\ ~includeIndirect
    /\ Len(deps) = 1
    /\ deps[1].module = entries[1].module

\* C9: newerVersion(a, b) takes the first run of 14 digits of each argument
\* as its timestamp; it fails when an argument has no such run, and returns
\* a when a's timestamp is not earlier than b's and b otherwise, so that the
\* version it returns has the later timestamp, and a on equal timestamps.
C9_NewerVersion ==
    pc = "compared" =>
        LET a == versions[1]
            c == versions[2]
        IN  /\ ~HasRun(a) =>
                  latest = [version |-> <<>>, err |-> NoTimestampFound(a)]
            /\ (HasRun(a) /\ ~HasRun(c)) =>
                  latest = [version |-> <<>>, err |-> NoTimestampFound(c)]
            /\ (HasRun(a) /\ HasRun(c)) =>
                  /\ latest.err = Nil
                  /\ latest.version = IF NotEarlier(FirstRun(a), FirstRun(c)) THEN a ELSE c
                  /\ NotEarlier(FirstRun(latest.version), FirstRun(a))
                  /\ NotEarlier(FirstRun(latest.version), FirstRun(c))
                  /\ FirstRun(a) = FirstRun(c) => latest.version = a

\* equal timestamps in two different versions: the first is returned
C9_Witness ==
    /\ pc = "compared"
    /\ versions[1] # versions[2]
    /\ HasRun(versions[1]) /\ HasRun(versions[2])
    /\ FirstRun(versions[1]) = FirstRun(versions[2])
    /\ latest.version = versions[1]

----------------------------------------------------------------------------
(* The exit code *)

\* the run ended in an error
RunFailed == load # "ok" \/ latest.err.isErr

\* an update was found and returned
UpdateFound == ~RunFailed /\ Outdated(Len(resolved)) # {}

\* C10: the process exits with code 1 exactly when the run ended in an error
\* or found an update, and with code 0 otherwise: also when go.mod requires
\* no pseudo-version and when every dependency is at its latest version.
C10_ExitCode ==
    pc = "exited" =>
        /\ exitCode \in {<<0>>, <<1>>}
        /\ exitCode = <<1>> <=> (RunFailed \/ UpdateFound)
        /\ (load = "ok" /\ deps = <<>>) => exitCode = <<0>>
        /\ (deps # <<>> /\ Len(resolved) = Len(deps) /\ Outdated(Len(deps)) = {})
              => exitCode = <<0>>

\* an update and no error: exit code 1
C10_Witness ==
    /\ pc = "exited"
    /\ ~RunFailed
    /\ UpdateFound
    /\ exitCode = <<1>>

----------------------------------------------------------------------------
(* Updates and newer commits *)

\* a pseudo-version whose only timestamp is the embedded one
PlainPseudoVersion(v) == IsPseudoVersion(v) /\ FirstRun(v) = EmbeddedTimestamp(v)

\* C11: an update is reported only when a newer commit is available: in
\* every update checkGoMod returns, the embedded timestamp of the latest
\* version is more recent than the embedded timestamp of the dependency's
\* current version.  Stated for the updates whose two versions are
\* pseudo-versions with a single run of 14 digits, where the timestamp is
\* beyond doubt.
C11_UpdatesAreNewer ==
    pc \in {"returned", "exited"} =>
        \A j \in 1..Len(ret.updates) :
            (PlainPseudoVersion(ret.updates[j].latest)
                /\ PlainPseudoVersion(ret.updates[j].current)) =>
                Later(EmbeddedTimestamp(ret.updates[j].latest),
                      EmbeddedTimestamp(ret.updates[j].current))

=============================================================================
